---- MODULE Spec2Model ----
(***************************************************************************)
(* A model of the publishing pipeline runner (internal/pipe/publish) and   *)
(* of the Gitea release client (internal/client/gitea.go).                 *)
(*                                                                         *)
(*   SpecRun      one Run of a publish pipeline                            *)
(*   SpecRelease  a sequence of CreateRelease invocations of one client    *)
(*   SpecFile     a sequence of CreateFile invocations of one client       *)
(*   SpecUpload, SpecMilestone, SpecChangelog  the same for Upload,        *)
(*                CloseMilestone and Changelog                             *)
(*   SpecConcurrent  CreateRelease invocations of two concurrent runs      *)
(*   SpecClient   invocations of any operation of one client               *)
(*   SpecNew      one Run of the pipeline built by New()                   *)
(***************************************************************************)
EXTENDS Integers, Sequences, FiniteSets, TLC

VARIABLES
    \* ---- publish.Pipe.Run ----
    pipeline,   \* p.pipeline: the stages, in list order
    failFast,   \* ctx.FailFast
    idx,        \* position of the range loop over p.pipeline (1-based)
    pc,         \* "loop" | "publishing" | "returned"
    memo,       \* errhandler.Memo of this run
    ret,        \* the error returned by Run (Nil: success)
    trace,      \* what the run did, in order: skip / start / end of a stage
    \* ---- the remote provider and the client ----
    releases,   \* the repository's releases, in the provider's listing order
    nextID,     \* the identifier the provider gives to the next release
    files,      \* [branch, path] -> revision marker of the stored file ("" absent)
    assets,     \* the attachments of the releases: <<release id, name>>
    milestones, \* title -> "open" | "closed" | "absent"
    cpc,        \* per client run: "idle" | "listed"
    frame,      \* per client run: the locals of the CreateRelease in progress
    hist        \* the completed client invocations, in order

runVars    == <<pipeline, failFast, idx, pc, memo, ret, trace>>
clientVars == <<releases, nextID, files, assets, milestones, cpc, frame, hist>>
vars       == <<pipeline, failFast, idx, pc, memo, ret, trace,
                releases, nextID, files, assets, milestones, cpc, frame, hist>>

(***************************************************************************)
(* Bounds                                                                  *)
(***************************************************************************)
NumStages == 3          \* longest pipeline of SpecRun
MaxInvocations == 2     \* client invocations per behaviour
PageSize == 2           \* releases the provider returns per listing page
MaxReleaseID == 12      \* largest release identifier a releaseID string may spell
MaxIncidents == 1       \* stages skipped or failing in a run of the default pipeline

Min(a, b) == IF a < b THEN a ELSE b

(***************************************************************************)
(* Errors.  An error is a record; its text is a sequence of pieces so that *)
(* a prefix ("names the stage") can be read back from it.                  *)
(***************************************************************************)
Nil == [nil |-> TRUE]

Cause(e) == [msg |-> <<e>>]

Causes == {Cause("e1"), Cause("e2")}

\* fmt.Errorf("%s: %w", publisher.String(), err)
MemoEntry(name, err) == [msg |-> <<name, ": ">> \o err.msg, wraps |-> err]

\* fmt.Errorf("%s: failed to publish artifacts: %w", publisher.String(), err)
FatalError(name, err) ==
    [msg |-> <<name, ": failed to publish artifacts: ">> \o err.msg, wraps |-> err]

(***************************************************************************)
(* Middleware of the runner                                                *)
(***************************************************************************)
\* skip.Maybe: the wrapped action is omitted, and nil returned, when the
\* stage's skip predicate evaluates to true.
Maybe(skips) == skips

\* errhandler.Handle: the error-classification wrapper around Publish; the
\* runner swallows no stage error but by the continue-on-error path, so the
\* stage's error reaches Run as it was returned.
Handle(err) == err

\* errhandler.Memo{}
EmptyMemo == <<>>

\* Memo.Memorize
Memorize(m, err) == Append(m, err)

\* Memo.Error: nil for an empty memo, else the join of what was memorized.
MemoError(m) == IF m = <<>> THEN Nil ELSE [errors |-> m]

(***************************************************************************)
(* publish.Pipe.Run                                                        *)
(***************************************************************************)
StageNames == <<"A", "B", "C", "D", "E">>

\* How a stage stands to the Continuable interface: not implemented, or
\* implemented with ContinueOnError() returning false or true.
ContKinds == {"none", "false", "true"}

Stage(i, cont) == [name |-> StageNames[i], cont |-> cont]

Pipelines ==
    UNION { { [i \in 1..n |-> Stage(i, c[i])] : c \in [1..n -> ContKinds] }
            : n \in 1..NumStages }

\* ig, ok := publisher.(Continuable); ok && ig.ContinueOnError() && !ctx.FailFast
ShouldContinueNever(publisher, ff) == FALSE
ShouldContinueUnlessFailFast(publisher, ff) == ~ff
ShouldContinueIgnoringFailFast(publisher, ff) == publisher.cont = "true"
ShouldContinue(publisher, ff) == publisher.cont = "true" /\ ~ff

\* for _, publisher := range p.pipeline
NextStageSame(i) == i
NextStage(i) == i + 1

\* skip.Maybe(publisher, ...)(ctx)
StageSkippedNever(skips) == FALSE
StageSkipped(skips) == Maybe(skips)

\* return memo.Error()
RunResultNil(m) == Nil
RunResult(m) == MemoError(m)

\* return fmt.Errorf("%s: failed to publish artifacts: %w", ...): what Run
\* returns when it aborts with m memorized.
AbortResultWithMemo(m, name, err) == [errors |-> Append(m, FatalError(name, err))]
AbortResult(m, name, err) == FatalError(name, err)

\* One entry of the trace.  skips is what the stage's skip predicate
\* evaluated to (FALSE for a stage without one).
Event(ev, i, skips, err) == [ev |-> ev, stage |-> i, skips |-> skips, err |-> err]

(***************************************************************************)
(* The remote provider, as the Gitea API answers the client's calls        *)
(***************************************************************************)
Runs == {1, 2}

Tags == {"v1.0", "1.0", "v2.0"}

\* ctx.Git.CurrentTag of the runs modelled
CurrentTags == {"v1.0", "1.0"}

\* A body is a sequence of lines.
StoredBodies == {<<"A">>, <<>>}
RenderedBodies == {<<"B">>}

\* ctx.Config.Release.ReleaseNotesMode
Modes == {"keep-existing", "append", "replace"}

Release(id, tag, note) == [id |-> id, tag |-> tag, note |-> note]

\* One provider call as the client issued it, and how the provider answered:
\* fault is "none", "transport" (the call failed for a reason of the
\* provider's own), "conflict" or "notfound".
Call(call, args, fault) == [call |-> call, args |-> args, fault |-> fault]

Faults == {"none", "transport"}

\* c.client.ListReleases(owner, repoName, gitea.ListReleasesOptions{}): the
\* zero-valued options ask for the provider's first page.
ListReleases(rels) == SubSeq(rels, 1, Min(PageSize, Len(rels)))

\* c.client.CreateRelease: the provider refuses a second release for a tag
\* and lists the newest release first.
TagTaken(rels, tag) == \E i \in DOMAIN rels : rels[i].tag = tag

ProviderCreate(rels, id, tag, note) == <<Release(id, tag, note)>> \o rels

\* c.client.EditRelease(owner, repoName, id, opts)
HasID(rels, id) == \E i \in DOMAIN rels : rels[i].id = id

ProviderEdit(rels, id, tag, note) ==
    [i \in DOMAIN rels |->
        IF rels[i].id = id THEN Release(id, tag, note) ELSE rels[i]]

\* The releases a repository may hold before the first invocation: one per
\* tag at most, the newest first.
DistinctTags(n) ==
    { t \in [1..n -> Tags] : \A i, j \in 1..n : i # j => t[i] # t[j] }

InitialListings ==
    UNION { { [i \in 1..n |-> Release(n - i + 1, t[i], b[i])]
                : <<t, b>> \in DistinctTags(n) \X [1..n -> StoredBodies] }
            : n \in 0..Cardinality(Tags) }

\* The branches of the repository written to, and the one the provider
\* reports as its default (p.DefaultBranch).
Branches == {"main", "master", "dev"}
DefaultBranch == "main"

\* repo.Branch: no override, or an override
RepoBranches == {"", "dev"}

Paths == {"Formula/app.rb"}
Contents == {"c1", "c2"}

\* The revision marker (blob hash) the provider keeps for a stored content.
ShaOf(content) == <<"sha", content>>
NoSha == <<>>

\* A call that names no branch is served from the default branch.
ProviderBranch(ref) == IF ref = "" THEN DefaultBranch ELSE ref

NoFiles == [k \in Branches \X Paths |-> NoSha]

\* The milestones of the repository, by title.
Titles == {"v1.0", "v2.0"}
NoMilestones == [t \in Titles |-> "absent"]

NoFrame == [tag |-> "", body |-> <<>>, mode |-> "", found |-> Nil,
            existed |-> FALSE, calls |-> <<>>]

InitRun ==
    /\ pipeline \in Pipelines
    /\ failFast \in BOOLEAN
    /\ idx = 1
    /\ pc = "loop"
    /\ memo = EmptyMemo
    /\ ret = Nil
    /\ trace = <<>>
    /\ releases = <<>>
    /\ nextID = 1
    /\ files = NoFiles
    /\ assets = {}
    /\ milestones = NoMilestones
    /\ cpc = [r \in Runs |-> "idle"]
    /\ frame = [r \in Runs |-> NoFrame]
    /\ hist = <<>>

\* The skips and failures of the run so far.
Incidents ==
    Cardinality({ j \in DOMAIN trace :
                    trace[j].ev = "skip" \/ (trace[j].ev = "end" /\ trace[j].err # Nil) })

\* Runs of a pipeline longer than NumStages are followed through at most
\* MaxIncidents skips and failures; the stages beyond that run and succeed.
IncidentAllowed ==
    IF Len(pipeline) <= NumStages THEN TRUE ELSE Incidents < MaxIncidents

\* The stage's skip predicate is true: Publish is not invoked, err is nil.
SkipStage ==
    /\ pc = "loop"
    /\ idx <= Len(pipeline)
    /\ IncidentAllowed
    /\ \E skips \in BOOLEAN :
         /\ StageSkipped(skips)
         /\ trace' = Append(trace, Event("skip", idx, skips, Nil))
    /\ idx' = NextStage(idx)
    /\ UNCHANGED <<pipeline, failFast, pc, memo, ret>>
    /\ UNCHANGED clientVars

\* The stage is not skipped: publisher.Publish(ctx) is invoked.
StartPublish ==
    /\ pc = "loop"
    /\ idx <= Len(pipeline)
    /\ \E skips \in BOOLEAN :
         /\ ~StageSkipped(skips)
         /\ trace' = Append(trace, Event("start", idx, skips, Nil))
    /\ pc' = "publishing"
    /\ UNCHANGED <<pipeline, failFast, idx, memo, ret>>
    /\ UNCHANGED clientVars

\* Publish returned nil.
PublishOk ==
    /\ pc = "publishing"
    /\ trace' = Append(trace, Event("end", idx, FALSE, Nil))
    /\ idx' = NextStage(idx)
    /\ pc' = "loop"
    /\ UNCHANGED <<pipeline, failFast, memo, ret>>
    /\ UNCHANGED clientVars

\* Publish returned an error: memorize it and continue, or return it as fatal.
PublishFail ==
    /\ pc = "publishing"
    /\ IncidentAllowed
    /\ \E e \in Causes :
         LET publisher == pipeline[idx]
             err == Handle(e)
         IN /\ trace' = Append(trace, Event("end", idx, FALSE, err))
            /\ IF ShouldContinue(publisher, failFast)
               THEN /\ memo' = Memorize(memo, MemoEntry(publisher.name, err))
                    /\ idx' = NextStage(idx)
                    /\ pc' = "loop"
                    /\ ret' = ret
               ELSE /\ ret' = AbortResult(memo, publisher.name, err)
                    /\ pc' = "returned"
                    /\ UNCHANGED <<memo, idx>>
    /\ UNCHANGED <<pipeline, failFast>>
    /\ UNCHANGED clientVars

\* The range loop is exhausted.
Finish ==
    /\ pc = "loop"
    /\ idx > Len(pipeline)
    /\ ret' = RunResult(memo)
    /\ pc' = "returned"
    /\ UNCHANGED <<pipeline, failFast, idx, memo, trace>>
    /\ UNCHANGED clientVars

NextRun ==
    \/ SkipStage
    \/ StartPublish
    \/ PublishOk
    \/ PublishFail
    \/ Finish

SpecRun == InitRun /\ [][NextRun]_vars

(***************************************************************************)
(* Reading the trace of a run                                              *)
(***************************************************************************)
IsFailure(ev) == ev.ev = "end" /\ ev.err # Nil

Failures == { j \in DOMAIN trace : IsFailure(trace[j]) }

\* The stage was skip-checked: skipped, or started.
Processed(k) ==
    \E j \in DOMAIN trace : trace[j].stage = k /\ trace[j].ev \in {"skip", "start"}

Invoked(k) == \E j \in DOMAIN trace : trace[j].stage = k /\ trace[j].ev = "start"

MemoEntriesOf(name) == { m \in DOMAIN memo : memo[m].msg[1] = name }

\* Run returned the fatal error of stage k.
AbortedAt(k) ==
    /\ pc = "returned"
    /\ "wraps" \in DOMAIN ret
    /\ ret.msg[1] = StageNames[k]

ReachedEnd == pc = "returned" /\ idx > Len(pipeline)

\* The failures of the run as memo entries, in execution order.
RECURSIVE FailureEntries(_)
FailureEntries(t) ==
    IF t = <<>> THEN <<>>
    ELSE LET rest == FailureEntries(Tail(t))
             h == Head(t)
         IN IF IsFailure(h)
            THEN <<MemoEntry(pipeline[h.stage].name, h.err)>> \o rest
            ELSE rest

\* The skip / start events of the trace, in order.
RECURSIVE ProcessedStages(_)
ProcessedStages(t) ==
    IF t = <<>> THEN <<>>
    ELSE IF Head(t).ev \in {"skip", "start"}
         THEN <<Head(t).stage>> \o ProcessedStages(Tail(t))
         ELSE ProcessedStages(Tail(t))

(***************************************************************************)
(* C2  Continue-on-error: a stage that ran and failed, declares            *)
(* ContinueOnError() = true, in a run that is not fail-fast, has exactly   *)
(* one memo entry "<name>: <error>", the run does not abort at it, and the *)
(* next stage of the list is processed.                                    *)
(***************************************************************************)
C2_ContinueOnError ==
    \A j \in Failures :
        LET k == trace[j].stage
            name == pipeline[k].name
        IN (pipeline[k].cont = "true" /\ ~failFast) =>
             /\ Cardinality(MemoEntriesOf(name)) = 1
             /\ \E m \in DOMAIN memo :
                    /\ memo[m].msg = <<name, ": ">> \o trace[j].err.msg
                    /\ memo[m].wraps = trace[j].err
             /\ ~AbortedAt(k)
             /\ idx > k
             /\ (pc = "returned" /\ k < Len(pipeline)) => Processed(k + 1)

C2_Witness ==
    /\ pc = "returned"
    /\ ~failFast
    /\ \E j \in Failures :
          /\ pipeline[trace[j].stage].cont = "true"
          /\ trace[j].stage < Len(pipeline)
          /\ Processed(trace[j].stage + 1)

(***************************************************************************)
(* C3  Fatal stage failure: when a stage without the continue capability   *)
(* fails, Run has returned an error naming the stage and wrapping the      *)
(* cause, whatever the fail-fast setting, and nothing follows the failure  *)
(* in the trace: no later stage is skip-checked or executed.               *)
(***************************************************************************)
C3_FatalStageFailure ==
    \A j \in Failures :
        LET k == trace[j].stage
        IN (pipeline[k].cont # "true") =>
             /\ pc = "returned"
             /\ "wraps" \in DOMAIN ret
             /\ ret.msg[1] = pipeline[k].name
             /\ ret.wraps = trace[j].err
             /\ j = Len(trace)
             /\ \A n \in DOMAIN pipeline : n > k => ~Processed(n)

\* [A fails continuable, B fails not continuable, C]: A then B, C never runs.
C3_Witness ==
    /\ Len(pipeline) = 3
    /\ ~failFast
    /\ pipeline[1].cont = "true"
    /\ pipeline[2].cont # "true"
    /\ \E i, j \in Failures : trace[i].stage = 1 /\ trace[j].stage = 2
    /\ pc = "returned"
    /\ ret.msg[1] = "B"
    /\ ~Processed(3)

(***************************************************************************)
(* C4  Fail-fast override: in fail-fast mode the memo stays empty, and a   *)
(* failure of any stage, continuable or not, is the last thing the run     *)
(* does: Run has returned that stage's fatal error.                        *)
(***************************************************************************)
C4_FailFast ==
    failFast =>
        /\ memo = <<>>
        /\ \A j \in Failures :
              /\ pc = "returned"
              /\ "wraps" \in DOMAIN ret
              /\ ret.msg[1] = pipeline[trace[j].stage].name
              /\ ret.wraps = trace[j].err
              /\ j = Len(trace)
              /\ \A n \in DOMAIN pipeline : n > trace[j].stage => ~Processed(n)

C4_Witness ==
    /\ failFast
    /\ pc = "returned"
    /\ \E j \in Failures :
          /\ pipeline[trace[j].stage].cont = "true"
          /\ trace[j].stage < Len(pipeline)

(***************************************************************************)
(* C5  Final result: a run that reaches the end of the list returns the    *)
(* join of exactly the memorized failures, in execution order, when the    *)
(* memo is non-empty, and success when it is empty; so it returns success  *)
(* exactly when no executed stage returned an error.                       *)
(***************************************************************************)
C5_FinalResult ==
    ReachedEnd =>
        /\ memo # <<>> => /\ "errors" \in DOMAIN ret
                          /\ ret.errors = FailureEntries(trace)
        /\ memo = <<>> => ret = Nil
        /\ (ret = Nil) <=> (Failures = {})

C5_Witness ==
    /\ ReachedEnd
    /\ Len(memo) = 2
    /\ \E j \in DOMAIN trace : trace[j].ev = "end" /\ trace[j].err = Nil
    /\ ret.errors[1].msg[1] = "A"

(***************************************************************************)
(* C6  Skip predicate: a stage whose skip predicate evaluated to true is   *)
(* never invoked, has no memo entry, is not the stage the run aborted at,  *)
(* and the runner goes on to the next stage.                               *)
(***************************************************************************)
C6_SkipPredicate ==
    \A j \in DOMAIN trace :
        trace[j].skips =>
            LET k == trace[j].stage
            IN /\ trace[j].ev = "skip"
               /\ ~Invoked(k)
               /\ \A i \in DOMAIN trace : trace[i].stage = k => i = j
               /\ MemoEntriesOf(pipeline[k].name) = {}
               /\ ~AbortedAt(k)
               /\ idx > k
               /\ (pc = "returned" /\ k < Len(pipeline)) => Processed(k + 1)

C6_Witness ==
    /\ pc = "returned"
    /\ Len(pipeline) = 3
    /\ trace[1].skips
    /\ \E j \in Failures : trace[j].stage = 2 /\ pipeline[2].cont = "true"
    /\ Invoked(3)

(***************************************************************************)
(* C7  Sequential, in-order execution: the stages are processed in list    *)
(* order, each at most once; a started stage returns before anything else  *)
(* happens; never are two stages executing at once.                        *)
(***************************************************************************)
C7_Sequential ==
    /\ LET ps == ProcessedStages(trace)
       IN \A n \in DOMAIN ps : ps[n] = n
    /\ \A j \in DOMAIN trace :
          /\ (trace[j].ev = "start" /\ j < Len(trace)) =>
                trace[j + 1].ev = "end" /\ trace[j + 1].stage = trace[j].stage
          /\ trace[j].ev = "end" =>
                j > 1 /\ trace[j - 1].ev = "start" /\ trace[j - 1].stage = trace[j].stage
    /\ Cardinality({ j \in DOMAIN trace :
                       trace[j].ev = "start"
                       /\ ~\E i \in DOMAIN trace :
                             i > j /\ trace[i].ev = "end"
                             /\ trace[i].stage = trace[j].stage }) <= 1
    /\ (pc = "publishing") <=> (trace # <<>> /\ trace[Len(trace)].ev = "start")

C7_Witness ==
    /\ pc = "publishing"
    /\ idx = 3
    /\ Invoked(1)
    /\ Invoked(2)

(***************************************************************************)
(* giteaClient.CreateRelease                                               *)
(***************************************************************************)
\* getReleaseNotes(existing, current, mode): the release-notes merge policy.
getReleaseNotes(existing, current, mode) ==
    CASE mode = "keep-existing" -> existing
      [] mode = "replace" -> current
      [] mode = "append" -> existing \o current

\* for _, release := range releases { if release.TagName == tagName { return release } }
getExistingReleaseNone(listing, tagName) == Nil

RECURSIVE getExistingRelease(_, _)
getExistingRelease(listing, tagName) ==
    IF listing = <<>> THEN Nil
    ELSE IF Head(listing).tag = tagName
         THEN Head(listing)
         ELSE getExistingRelease(Tail(listing), tagName)

\* body = getReleaseNotes(release.Note, body, ctx.Config.Release.ReleaseNotesMode)
NotesForUpdateRendered(existing, body, mode) == body
NotesForUpdate(existing, body, mode) == getReleaseNotes(existing, body, mode)

\* c.createRelease(ctx, title, body): Note: body
NotesForCreate(body) == body

Digit(d) ==
    CASE d = 0 -> "0" [] d = 1 -> "1" [] d = 2 -> "2" [] d = 3 -> "3"
      [] d = 4 -> "4" [] d = 5 -> "5" [] d = 6 -> "6" [] d = 7 -> "7"
      [] d = 8 -> "8" [] d = 9 -> "9"

\* strconv.FormatInt(release.ID, 10)
RECURSIVE FormatInt(_)
FormatInt(n) ==
    IF n < 0 THEN "-" \o FormatInt(-n)
    ELSE IF n < 10 THEN Digit(n)
    ELSE FormatInt(n \div 10) \o Digit(n % 10)

\* What one CreateRelease invocation was given, and whether the repository
\* held a release with its tag when it listed.
Invocation(tag, body, mode) ==
    [op |-> "CreateRelease", tag |-> tag, body |-> body, mode |-> mode,
     existed |-> TagTaken(releases, tag)]

\* A completed invocation: its provider calls and what it returned.
Returned(inv, stored, calls, ok, id) ==
    [op |-> inv.op, tag |-> inv.tag, body |-> inv.body, mode |-> inv.mode,
     existed |-> inv.existed, stored |-> stored, calls |-> calls,
     ok |-> ok, id |-> id]

\* The body the provider stores for release id (<<>> when it holds none).
StoredNote(rels, id) ==
    IF HasID(rels, id)
    THEN (CHOOSE rel \in { rels[i] : i \in DOMAIN rels } : rel.id = id).note
    ELSE <<>>

InitRelease ==
    /\ pipeline = <<>>
    /\ failFast = FALSE
    /\ idx = 1
    /\ pc = "returned"
    /\ memo = EmptyMemo
    /\ ret = Nil
    /\ trace = <<>>
    /\ releases \in InitialListings
    /\ nextID = Len(releases) + 1
    /\ files = NoFiles
    /\ assets = {}
    /\ milestones = NoMilestones
    /\ cpc = [r \in Runs |-> "idle"]
    /\ frame = [r \in Runs |-> NoFrame]
    /\ hist = <<>>

InProgress == { r \in Runs : cpc[r] # "idle" }

\* CreateRelease up to the return of getExistingRelease: the title template,
\* then the listing and its scan.
CreateReleaseList(r) ==
    /\ cpc[r] = "idle"
    /\ Len(hist) + Cardinality(InProgress) < MaxInvocations
    /\ \E tag \in CurrentTags, body \in RenderedBodies, mode \in Modes,
          tmplOK \in BOOLEAN, fault \in Faults :
         LET inv == Invocation(tag, body, mode)
             list == Call("ListReleases", <<>>, fault)
         IN IF ~tmplOK
            THEN /\ fault = "none"
                 /\ hist' = Append(hist, Returned(inv, <<>>, <<>>, FALSE, ""))
                 /\ UNCHANGED <<cpc, frame>>
            ELSE IF fault # "none"
            THEN /\ hist' = Append(hist, Returned(inv, <<>>, <<list>>, FALSE, ""))
                 /\ UNCHANGED <<cpc, frame>>
            ELSE /\ frame' = [frame EXCEPT ![r] =
                       [tag |-> tag, body |-> body, mode |-> mode,
                        found |-> getExistingRelease(ListReleases(releases), tag),
                        existed |-> inv.existed, calls |-> <<list>>]]
                 /\ cpc' = [cpc EXCEPT ![r] = "listed"]
                 /\ hist' = hist
    /\ UNCHANGED <<releases, nextID, files, assets, milestones>>
    /\ UNCHANGED runVars

\* if release != nil: the release the invocation decides on is the one its
\* own listing returned; nothing is read again before the mutating call.
ReleaseDecidedOnFresh(f, rels) == getExistingRelease(ListReleases(rels), f.tag)
ReleaseDecidedOn(f, rels) == f.found

\* The rest of CreateRelease: updateRelease of the release found, or
\* createRelease, and the identifier returned.
CreateReleaseMutate(r) ==
    /\ cpc[r] = "listed"
    /\ \E fault \in Faults :
         LET f == frame[r]
             found == ReleaseDecidedOn(f, releases)
             inv == [op |-> "CreateRelease", tag |-> f.tag, body |-> f.body,
                     mode |-> f.mode, existed |-> f.existed]
         IN IF found # Nil
            THEN LET note == NotesForUpdate(found.note, f.body, f.mode)
                     flt == IF fault = "none" /\ ~HasID(releases, found.id)
                            THEN "notfound" ELSE fault
                     edit == Call("EditRelease",
                                  [id |-> found.id, tag |-> f.tag, note |-> note], flt)
                 IN /\ releases' = IF flt = "none"
                                   THEN ProviderEdit(releases, found.id, f.tag, note)
                                   ELSE releases
                    /\ nextID' = nextID
                    /\ hist' = Append(hist,
                          Returned(inv, StoredNote(releases, found.id),
                                   Append(f.calls, edit), flt = "none",
                                   IF flt = "none" THEN FormatInt(found.id) ELSE ""))
            ELSE LET note == NotesForCreate(f.body)
                     flt == IF fault = "none" /\ TagTaken(releases, f.tag)
                            THEN "conflict" ELSE fault
                     create == Call("CreateRelease", [tag |-> f.tag, note |-> note], flt)
                 IN /\ releases' = IF flt = "none"
                                   THEN ProviderCreate(releases, nextID, f.tag, note)
                                   ELSE releases
                    /\ nextID' = IF flt = "none" THEN nextID + 1 ELSE nextID
                    /\ hist' = Append(hist,
                          Returned(inv, <<>>, Append(f.calls, create), flt = "none",
                                   IF flt = "none" THEN FormatInt(nextID) ELSE ""))
    /\ cpc' = [cpc EXCEPT ![r] = "idle"]
    /\ frame' = [frame EXCEPT ![r] = NoFrame]
    /\ UNCHANGED <<files, assets, milestones>>
    /\ UNCHANGED runVars

NextRelease ==
    \/ CreateReleaseList(1)
    \/ CreateReleaseMutate(1)

SpecRelease == InitRelease /\ [][NextRelease]_vars

(***************************************************************************)
(* Reading the history of client invocations                               *)
(***************************************************************************)
CallsOf(h, name) == { c \in DOMAIN h.calls : h.calls[c].call = name }

NoTransportFault(h) == \A c \in DOMAIN h.calls : h.calls[c].fault # "transport"

\* The provider answered every call the invocation issued, and the
\* invocation got as far as issuing a mutating call.
RanToMutation(h) ==
    /\ NoTransportFault(h)
    /\ CallsOf(h, "CreateRelease") \cup CallsOf(h, "EditRelease") # {}

WithTag(tag) == { i \in DOMAIN releases : releases[i].tag = tag }

\* a, then b, occur in s as blocks of lines, b after the end of a.
ContainsInOrder(s, a, b) ==
    \E i \in 1..(Len(s) + 1) :
        /\ i + Len(a) - 1 <= Len(s)
        /\ SubSeq(s, i, i + Len(a) - 1) = a
        /\ \E j \in (i + Len(a))..(Len(s) + 1) :
              /\ j + Len(b) - 1 <= Len(s)
              /\ SubSeq(s, j, j + Len(b) - 1) = b

(***************************************************************************)
(* C1  Idempotent release reconciliation: of two successive CreateRelease  *)
(* invocations for one tag, the first returning an identifier and the      *)
(* second having its provider calls answered, the first issued one create  *)
(* and no edit when the tag was absent; the second issues no create and    *)
(* exactly one edit, of the identifier the first returned, and returns     *)
(* that identifier; afterwards exactly one release carries the tag.        *)
(***************************************************************************)
C1_Idempotent ==
    \A n \in 1..(Len(hist) - 1) :
        LET h1 == hist[n]
            h2 == hist[n + 1]
        IN (/\ h1.op = "CreateRelease"
            /\ h2.op = "CreateRelease"
            /\ h1.tag = h2.tag
            /\ h1.ok
            /\ RanToMutation(h2)) =>
             /\ ~h1.existed =>
                   /\ Cardinality(CallsOf(h1, "CreateRelease")) = 1
                   /\ CallsOf(h1, "EditRelease") = {}
             /\ CallsOf(h2, "CreateRelease") = {}
             /\ Cardinality(CallsOf(h2, "EditRelease")) = 1
             /\ \A c \in CallsOf(h2, "EditRelease") :
                   FormatInt(h2.calls[c].args.id) = h1.id
             /\ h2.ok
             /\ h2.id = h1.id
             /\ (n + 1 = Len(hist)) => Cardinality(WithTag(h1.tag)) = 1

\* The tag was absent, the first call created it beyond a full page of
\* older releases, the second call edited it.
C1_Witness ==
    /\ Len(hist) = 2
    /\ hist[1].tag = hist[2].tag
    /\ ~hist[1].existed
    /\ hist[1].ok
    /\ hist[2].ok
    /\ CallsOf(hist[2], "EditRelease") # {}
    /\ Len(releases) > PageSize

getDefaultBranch(fault) == IF fault = "none" THEN DefaultBranch ELSE ""

\* The branch CreateFile works on: repo.Branch when set, else what
\* getDefaultBranch returned (the error branch only logs the warning).
ResolveBranch(repoBranch, fault) ==
    IF repoBranch # "" THEN repoBranch ELSE getDefaultBranch(fault)

\* How GetContents may fail of its own: with a response that is not a 404,
\* or with no response at all (resp == nil).
LookupFaults == {"none", "transport", "noresp"}

\* if err != nil { if resp == nil || resp.StatusCode != 404 { return err }; create }; update
LookupDecisionAlwaysCreate(fault) ==
    IF fault \in {"none", "notfound"} THEN "create" ELSE "return"

LookupDecisionCreateOnError(fault) ==
    IF fault = "none" THEN "update" ELSE "create"

LookupDecision(fault) ==
    CASE fault = "none" -> "update"
      [] fault = "notfound" -> "create"
      [] OTHER -> "return"

\* SHA: currentFile.SHA
UpdateSHANone(currentSHA) == NoSha
UpdateSHA(currentSHA) == currentSHA

\* base64.StdEncoding.EncodeToString(content), and the provider's decoding
Base64Encode(content) == <<"base64", content>>
Base64Decode(enc) == enc[2]

InitFile ==
    /\ pipeline = <<>>
    /\ failFast = FALSE
    /\ idx = 1
    /\ pc = "returned"
    /\ memo = EmptyMemo
    /\ ret = Nil
    /\ trace = <<>>
    /\ releases = <<>>
    /\ nextID = 1
    /\ files \in [Branches \X Paths -> {NoSha, ShaOf("c1")}]
    /\ assets = {}
    /\ milestones = NoMilestones
    /\ cpc = [r \in Runs |-> "idle"]
    /\ frame = [r \in Runs |-> NoFrame]
    /\ hist = <<>>

FileReturned(repoBranch, path, content, branch, warned, stored, calls, ok) ==
    [op |-> "CreateFile", repoBranch |-> repoBranch, path |-> path,
     content |-> content, branch |-> branch, warned |-> warned,
     stored |-> stored, calls |-> calls, ok |-> ok]

CreateFile ==
    /\ InProgress = {}
    /\ Len(hist) < MaxInvocations
    /\ \E repoBranch \in RepoBranches, path \in Paths, content \in Contents,
          repoFault \in Faults, getFault \in LookupFaults, mutFault \in Faults :
         LET lookup == repoBranch = ""
             branch == ResolveBranch(repoBranch, repoFault)
             warned == lookup /\ repoFault # "none"
             key == <<ProviderBranch(branch), path>>
             stored == files[key]
             gf == IF getFault = "none" /\ stored = NoSha THEN "notfound" ELSE getFault
             decision == LookupDecision(gf)
             repoCalls == IF lookup THEN <<Call("GetRepo", <<>>, repoFault)>> ELSE <<>>
             get == Call("GetContents", [branch |-> branch, path |-> path], gf)
             cflt == IF mutFault = "none" /\ stored # NoSha THEN "conflict" ELSE mutFault
             create == Call("CreateFile",
                            [branch |-> branch, path |-> path,
                             content |-> Base64Encode(content)], cflt)
             sha == UpdateSHA(stored)
             uflt == IF mutFault = "none" /\ (stored = NoSha \/ sha # stored)
                     THEN "conflict" ELSE mutFault
             update == Call("UpdateFile",
                            [branch |-> branch, path |-> path, sha |-> sha,
                             content |-> Base64Encode(content)], uflt)
             written(call) ==
                 [files EXCEPT ![key] = ShaOf(Base64Decode(call.args.content))]
             done(calls, ok) ==
                 Append(hist, FileReturned(repoBranch, path, content, branch,
                                           warned, stored, calls, ok))
         IN /\ lookup \/ repoFault = "none"
            /\ decision # "return" \/ mutFault = "none"
            /\ CASE decision = "return" ->
                      /\ files' = files
                      /\ hist' = done(repoCalls \o <<get>>, FALSE)
                 [] decision = "create" ->
                      /\ files' = IF cflt = "none" THEN written(create) ELSE files
                      /\ hist' = done(repoCalls \o <<get, create>>, cflt = "none")
                 [] decision = "update" ->
                      /\ files' = IF uflt = "none" THEN written(update) ELSE files
                      /\ hist' = done(repoCalls \o <<get, update>>, uflt = "none")
    /\ UNCHANGED <<releases, nextID, assets, milestones, cpc, frame>>
    /\ UNCHANGED runVars

NextFile == CreateFile

SpecFile == InitFile /\ [][NextFile]_vars

\* The calls of an invocation that name a target branch.
BranchCalls(h) ==
    CallsOf(h, "GetContents") \cup CallsOf(h, "CreateFile") \cup CallsOf(h, "UpdateFile")

\* The content lookup of the invocation was answered: found, or not found.
LookupAnswered(h) ==
    \E c \in CallsOf(h, "GetContents") : h.calls[c].fault \in {"none", "notfound"}

SameFileOperation(h1, h2) ==
    /\ h1.op = "CreateFile"
    /\ h2.op = "CreateFile"
    /\ h1.repoBranch = h2.repoBranch
    /\ h1.path = h2.path
    /\ h1.content = h2.content

(***************************************************************************)
(* C8  File create-vs-update: a CreateFile whose content lookup answers    *)
(* not-found issues exactly one create and no update; the same CreateFile  *)
(* repeated after a successful one, its lookup answered, issues exactly    *)
(* one update, carrying the revision marker the provider stores for the    *)
(* file at that moment, and no create.                                     *)
(***************************************************************************)
C8_CreateVsUpdate ==
    \A n \in DOMAIN hist :
        LET h == hist[n]
        IN h.op = "CreateFile" =>
             /\ (\E c \in CallsOf(h, "GetContents") : h.calls[c].fault = "notfound") =>
                   /\ Cardinality(CallsOf(h, "CreateFile")) = 1
                   /\ CallsOf(h, "UpdateFile") = {}
             /\ (/\ n > 1
                 /\ SameFileOperation(hist[n - 1], h)
                 /\ hist[n - 1].ok
                 /\ LookupAnswered(h)) =>
                   /\ CallsOf(h, "CreateFile") = {}
                   /\ Cardinality(CallsOf(h, "UpdateFile")) = 1
                   /\ \A c \in CallsOf(h, "UpdateFile") :
                         /\ h.calls[c].args.sha = h.stored
                         /\ h.calls[c].args.sha = ShaOf(hist[n - 1].content)

\* Created by the first invocation, updated by its repetition.
C8_Witness ==
    /\ Len(hist) = 2
    /\ SameFileOperation(hist[1], hist[2])
    /\ CallsOf(hist[1], "CreateFile") # {}
    /\ hist[1].ok
    /\ CallsOf(hist[2], "UpdateFile") # {}
    /\ hist[2].ok

(***************************************************************************)
(* C9  Branch fallback: with no branch override and a failed default-      *)
(* branch lookup, CreateFile logs the warning, goes on to the content      *)
(* lookup, and every call naming a branch names "master"; with an          *)
(* override, that branch is named and GetRepo is not called.               *)
(***************************************************************************)
C9_BranchFallback ==
    \A n \in DOMAIN hist :
        LET h == hist[n]
        IN h.op = "CreateFile" =>
             /\ (/\ h.repoBranch = ""
                 /\ \E c \in CallsOf(h, "GetRepo") : h.calls[c].fault # "none") =>
                   /\ h.warned
                   /\ CallsOf(h, "GetContents") # {}
                   /\ \A c \in BranchCalls(h) : h.calls[c].args.branch = "master"
             /\ h.repoBranch # "" =>
                   /\ CallsOf(h, "GetRepo") = {}
                   /\ \A c \in BranchCalls(h) : h.calls[c].args.branch = h.repoBranch

(***************************************************************************)
(* giteaClient.Upload                                                      *)
(***************************************************************************)
\* The error of a provider call that failed.
ProviderError(call) == [msg |-> <<call.call, call.fault>>]

\* RetriableError{err}
RetriableError(err) == [retriable |-> err]

IsRetriable(err) == "retriable" \in DOMAIN err

\* strconv.ParseInt(releaseID, 10, 64): the number the decimal string spells,
\* or a syntax error.
ParseInt(str) ==
    LET spelt == { n \in 0..MaxReleaseID : FormatInt(n) = str }
    IN IF spelt = {}
       THEN [ok |-> FALSE, value |-> 0,
             err |-> [msg |-> <<"strconv.ParseInt: parsing ", str, ": invalid syntax">>]]
       ELSE [ok |-> TRUE, value |-> CHOOSE n \in spelt : TRUE, err |-> Nil]

\* The releaseID strings handed to Upload: identifiers as CreateRelease
\* returns them, and strings that spell no number.
ReleaseIDs == {FormatInt(1), FormatInt(2), FormatInt(MaxReleaseID), "abc", ""}

\* artifact.Name
ArtifactNames == {"app.tar.gz", "checksums.txt"}

\* if err != nil { return RetriableError{err} }
AttachmentErrorPlain(err) == err
AttachmentError(err) == RetriableError(err)

\* if err != nil { return err }  (after strconv.ParseInt)
ParseFailure(err) == err

UploadReturned(releaseID, name, calls, err) ==
    [op |-> "Upload", releaseID |-> releaseID, name |-> name,
     calls |-> calls, ok |-> err = Nil, err |-> err]

InitUpload ==
    /\ pipeline = <<>>
    /\ failFast = FALSE
    /\ idx = 1
    /\ pc = "returned"
    /\ memo = EmptyMemo
    /\ ret = Nil
    /\ trace = <<>>
    /\ releases \in InitialListings
    /\ nextID = Len(releases) + 1
    /\ files = NoFiles
    /\ assets = {}
    /\ milestones = NoMilestones
    /\ cpc = [r \in Runs |-> "idle"]
    /\ frame = [r \in Runs |-> NoFrame]
    /\ hist = <<>>

Upload ==
    /\ InProgress = {}
    /\ Len(hist) < MaxInvocations
    /\ \E releaseID \in ReleaseIDs, name \in ArtifactNames, fault \in Faults :
         LET parsed == ParseInt(releaseID)
             id == parsed.value
             flt == IF fault # "none" THEN fault
                    ELSE IF ~HasID(releases, id) THEN "notfound"
                    ELSE IF <<id, name>> \in assets THEN "conflict"
                    ELSE "none"
             attach == Call("CreateReleaseAttachment", [id |-> id, name |-> name], flt)
         IN IF ~parsed.ok
            THEN /\ fault = "none"
                 /\ assets' = assets
                 /\ hist' = Append(hist, UploadReturned(releaseID, name, <<>>,
                                                        ParseFailure(parsed.err)))
            ELSE /\ assets' = IF flt = "none" THEN assets \cup {<<id, name>>} ELSE assets
                 /\ hist' = Append(hist, UploadReturned(releaseID, name, <<attach>>,
                        IF flt = "none" THEN Nil
                        ELSE AttachmentError(ProviderError(attach))))
    /\ UNCHANGED <<releases, nextID, files, milestones, cpc, frame>>
    /\ UNCHANGED runVars

NextUpload == Upload

SpecUpload == InitUpload /\ [][NextUpload]_vars

(***************************************************************************)
(* C11  Upload error marking, as claimed: every failure Upload returns is  *)
(* a RetriableError, whatever its cause; Upload succeeds only when the     *)
(* attachment was created, and attempts the attachment at most once.       *)
(***************************************************************************)
C11_EveryFailureRetriable ==
    \A n \in DOMAIN hist :
        LET h == hist[n]
        IN h.op = "Upload" =>
             /\ ~h.ok => IsRetriable(h.err)
             /\ h.ok => \E c \in CallsOf(h, "CreateReleaseAttachment") :
                           /\ h.calls[c].fault = "none"
                           /\ <<h.calls[c].args.id, h.name>> \in assets
             /\ Cardinality(CallsOf(h, "CreateReleaseAttachment")) <= 1

(***************************************************************************)
(* C11 amended: every failure of the attachment call is returned as a      *)
(* RetriableError wrapping the provider's error, whatever its cause; a     *)
(* releaseID that spells no number is returned as the plain parse error,   *)
(* before any attachment attempt; Upload succeeds only when the attachment *)
(* was created, and attempts the attachment at most once.                  *)
(***************************************************************************)
C11_AttachmentFailureRetriable ==
    \A n \in DOMAIN hist :
        LET h == hist[n]
            attempts == CallsOf(h, "CreateReleaseAttachment")
        IN h.op = "Upload" =>
             /\ (~h.ok /\ attempts # {}) =>
                   /\ IsRetriable(h.err)
                   /\ \A c \in attempts :
                         /\ h.calls[c].fault # "none"
                         /\ h.err.retriable = ProviderError(h.calls[c])
             /\ (~h.ok /\ attempts = {}) =>
                   /\ ~IsRetriable(h.err)
                   /\ ~\E k \in 0..MaxReleaseID : FormatInt(k) = h.releaseID
             /\ h.ok => \E c \in attempts :
                           /\ h.calls[c].fault = "none"
                           /\ <<h.calls[c].args.id, h.name>> \in assets
                           /\ FormatInt(h.calls[c].args.id) = h.releaseID
             /\ Cardinality(attempts) <= 1

\* An unparsable releaseID, then an attachment call that failed in transport.
C11_Witness ==
    /\ Len(hist) = 2
    /\ hist[1].releaseID = "abc"
    /\ ~hist[1].ok
    /\ ~hist[2].ok
    /\ IsRetriable(hist[2].err)
    /\ \E c \in CallsOf(hist[2], "CreateReleaseAttachment") :
          hist[2].calls[c].fault = "transport"

(***************************************************************************)
(* giteaClient.CloseMilestone                                              *)
(***************************************************************************)
\* ErrNoMilestoneFound{Title: title}
ErrNoMilestoneFound(title) == [noMilestone |-> title]

\* How EditMilestoneByName may fail of its own: with a response that is not
\* a 404, or with no response at all.
MilestoneFaults == {"none", "transport", "noresp"}

\* if resp != nil && resp.StatusCode == http.StatusNotFound {
\*     return ErrNoMilestoneFound{Title: title} }; return err
MilestoneResultGeneric(fault, title, err) == err
MilestoneResult(fault, title, err) ==
    IF fault = "notfound" THEN ErrNoMilestoneFound(title) ELSE err

MilestoneReturned(title, before, calls, err) ==
    [op |-> "CloseMilestone", title |-> title, before |-> before,
     calls |-> calls, ok |-> err = Nil, err |-> err]

InitMilestone ==
    /\ pipeline = <<>>
    /\ failFast = FALSE
    /\ idx = 1
    /\ pc = "returned"
    /\ memo = EmptyMemo
    /\ ret = Nil
    /\ trace = <<>>
    /\ releases = <<>>
    /\ nextID = 1
    /\ files = NoFiles
    /\ assets = {}
    /\ milestones \in [Titles -> {"open", "closed", "absent"}]
    /\ cpc = [r \in Runs |-> "idle"]
    /\ frame = [r \in Runs |-> NoFrame]
    /\ hist = <<>>

CloseMilestone ==
    /\ InProgress = {}
    /\ Len(hist) < MaxInvocations
    /\ \E title \in Titles, fault \in MilestoneFaults :
         LET flt == IF fault = "none" /\ milestones[title] = "absent"
                    THEN "notfound" ELSE fault
             edit == Call("EditMilestoneByName",
                          [title |-> title, state |-> "closed"], flt)
             err == IF flt = "none" THEN Nil ELSE ProviderError(edit)
         IN /\ milestones' = IF flt = "none"
                             THEN [milestones EXCEPT ![title] = edit.args.state]
                             ELSE milestones
            /\ hist' = Append(hist, MilestoneReturned(title, milestones[title], <<edit>>,
                                                      MilestoneResult(flt, title, err)))
    /\ UNCHANGED <<releases, nextID, files, assets, cpc, frame>>
    /\ UNCHANGED runVars

NextMilestone == CloseMilestone

SpecMilestone == InitMilestone /\ [][NextMilestone]_vars

(***************************************************************************)
(* C12  Milestone not-found distinction: CloseMilestone on a title the     *)
(* provider answers not-found for returns ErrNoMilestoneFound carrying     *)
(* that title; on an existing milestone it leaves the state closed and     *)
(* returns success; any other provider failure is returned as it is.       *)
(***************************************************************************)
C12_MilestoneNotFound ==
    \A n \in DOMAIN hist :
        LET h == hist[n]
        IN h.op = "CloseMilestone" =>
             \A c \in CallsOf(h, "EditMilestoneByName") :
                 LET fault == h.calls[c].fault
                 IN /\ fault = "notfound" =>
                          /\ ~h.ok
                          /\ h.err = [noMilestone |-> h.title]
                          /\ h.calls[c].args.title = h.title
                    /\ (h.before = "absent" /\ fault \notin {"transport", "noresp"}) =>
                          fault = "notfound"
                    /\ (h.before # "absent" /\ fault \notin {"transport", "noresp"}) =>
                          /\ h.ok
                          /\ milestones[h.title] = "closed"
                    /\ fault \in {"transport", "noresp"} =>
                          /\ ~h.ok
                          /\ h.err = ProviderError(h.calls[c])
                    /\ h.ok => fault = "none"

\* An open milestone closed, and an absent one reported as such.
C12_Witness ==
    /\ Len(hist) = 2
    /\ hist[1].before = "open"
    /\ hist[1].ok
    /\ milestones[hist[1].title] = "closed"
    /\ hist[2].before = "absent"
    /\ hist[2].err = [noMilestone |-> hist[2].title]

(***************************************************************************)
(* giteaClient.Changelog                                                   *)
(***************************************************************************)
\* A commit message is a sequence of characters, "\n" the line break.
Commit(sha, message, author) == [sha |-> sha, message |-> message, author |-> author]

Author(name) == [FullName |-> name, Email |-> <<name, "@example.com">>, UserName |-> name]

\* The commits the provider's comparison may report.
Commits ==
    { Commit("c0ffee", <<"f", "i", "x">>, Nil),
      Commit("abad1d", <<"a", "d", "d", "\n", "\n", "b", "o", "d", "y">>, Author("ana")),
      Commit("b16b00", <<"\n", "l", "a", "t", "e">>, Author("bo")) }

\* The lists of commits the comparison may return: any of them, in any order.
CommitLists ==
    UNION { { l \in [1..n -> Commits] : \A i, j \in 1..n : i # j => l[i] # l[j] }
            : n \in 0..Cardinality(Commits) }

\* strings.Split(commit.RepoCommit.Message, "\n")[0]
RECURSIVE FirstLine(_)
FirstLine(message) ==
    IF message = <<>> \/ Head(message) = "\n" THEN <<>>
    ELSE <<Head(message)>> \o FirstLine(Tail(message))

\* item := ChangelogItem{...}; if author := commit.Author; author != nil {...}
ChangelogItem(commit) ==
    [SHA |-> commit.sha,
     Message |-> FirstLine(commit.message),
     AuthorName |-> IF commit.author # Nil THEN commit.author.FullName ELSE "",
     AuthorEmail |-> IF commit.author # Nil THEN commit.author.Email ELSE "",
     AuthorUsername |-> IF commit.author # Nil THEN commit.author.UserName ELSE ""]

\* for _, commit := range result.Commits { ...; log = append(log, item) }
RECURSIVE ChangelogItemsReversed(_)
ChangelogItemsReversed(commits) ==
    IF commits = <<>> THEN <<>>
    ELSE Append(ChangelogItemsReversed(Tail(commits)), ChangelogItem(Head(commits)))

RECURSIVE ChangelogItems(_)
ChangelogItems(commits) ==
    IF commits = <<>> THEN <<>>
    ELSE <<ChangelogItem(Head(commits))>> \o ChangelogItems(Tail(commits))

ChangelogReturned(commits, calls, log, err) ==
    [op |-> "Changelog", commits |-> commits, calls |-> calls,
     log |-> log, ok |-> err = Nil, err |-> err]

InitChangelog ==
    /\ pipeline = <<>>
    /\ failFast = FALSE
    /\ idx = 1
    /\ pc = "returned"
    /\ memo = EmptyMemo
    /\ ret = Nil
    /\ trace = <<>>
    /\ releases = <<>>
    /\ nextID = 1
    /\ files = NoFiles
    /\ assets = {}
    /\ milestones = NoMilestones
    /\ cpc = [r \in Runs |-> "idle"]
    /\ frame = [r \in Runs |-> NoFrame]
    /\ hist = <<>>

Changelog ==
    /\ InProgress = {}
    /\ Len(hist) < MaxInvocations
    /\ \E commits \in CommitLists, fault \in Faults :
         LET compare == Call("CompareCommits", <<"prev", "current">>, fault)
         IN IF fault # "none"
            THEN /\ commits = <<>>
                 /\ hist' = Append(hist, ChangelogReturned(commits, <<compare>>, <<>>,
                                                           ProviderError(compare)))
            ELSE hist' = Append(hist, ChangelogReturned(commits, <<compare>>,
                                                        ChangelogItems(commits), Nil))
    /\ UNCHANGED <<releases, nextID, files, assets, milestones, cpc, frame>>
    /\ UNCHANGED runVars

NextChangelog == Changelog

SpecChangelog == InitChangelog /\ [][NextChangelog]_vars

\* line is the text of message before its first line break.
IsFirstLineOf(line, message) ==
    /\ Len(line) <= Len(message)
    /\ SubSeq(message, 1, Len(line)) = line
    /\ \A i \in DOMAIN line : line[i] # "\n"
    /\ Len(line) = Len(message) \/ message[Len(line) + 1] = "\n"

(***************************************************************************)
(* C13  Changelog ordering preservation: the list Changelog returns has    *)
(* the length of the provider's commit list, its i-th entry carrying the   *)
(* SHA of the provider's i-th commit and the first line of its message;    *)
(* when the comparison fails, Changelog returns that error and no entry.   *)
(***************************************************************************)
C13_ChangelogOrder ==
    \A n \in DOMAIN hist :
        LET h == hist[n]
        IN h.op = "Changelog" =>
             \A c \in CallsOf(h, "CompareCommits") :
                 IF h.calls[c].fault = "none"
                 THEN /\ h.ok
                      /\ Len(h.log) = Len(h.commits)
                      /\ \A i \in DOMAIN h.log :
                            /\ h.log[i].SHA = h.commits[i].sha
                            /\ IsFirstLineOf(h.log[i].Message, h.commits[i].message)
                 ELSE /\ ~h.ok
                      /\ h.err = ProviderError(h.calls[c])
                      /\ h.log = <<>>

\* Three commits reported in an order that is neither sorted nor reversed.
C13_Witness ==
    \E n \in DOMAIN hist :
        /\ hist[n].op = "Changelog"
        /\ Len(hist[n].log) = 3
        /\ hist[n].log[1].SHA = "c0ffee"
        /\ hist[n].log[2].SHA = "b16b00"
        /\ hist[n].log[3].SHA = "abad1d"
        /\ hist[n].log[3].Message = <<"a", "d", "d">>
        /\ hist[n].log[2].Message = <<>>

(***************************************************************************)
(* Two runs calling CreateRelease with no coordination between them        *)
(***************************************************************************)
NextConcurrent ==
    \/ CreateReleaseList(1)
    \/ CreateReleaseMutate(1)
    \/ CreateReleaseList(2)
    \/ CreateReleaseMutate(2)

SpecConcurrent == InitRelease /\ [][NextConcurrent]_vars

\* The listing of the invocation was answered.
Listed(h) == \E c \in CallsOf(h, "ListReleases") : h.calls[c].fault = "none"

(***************************************************************************)
(* C14  Unserialized concurrent runs: an invocation whose listing showed   *)
(* no release with its tag issues exactly one create call and no edit,     *)
(* whatever the other run did since the listing; so of two invocations for *)
(* one tag the first of which created the release, the second issues a     *)
(* second create for the tag when it listed before that creation, and no   *)
(* create when it listed after it (the serialized case).  An edit the      *)
(* provider accepted last is the one whose body the release carries.       *)
(***************************************************************************)
C14_ConcurrentRuns ==
    /\ \A n \in DOMAIN hist :
          LET h == hist[n]
          IN (h.op = "CreateRelease" /\ Listed(h) /\ ~h.existed) =>
                /\ Cardinality(CallsOf(h, "CreateRelease")) = 1
                /\ CallsOf(h, "EditRelease") = {}
    /\ \A n, m \in DOMAIN hist :
          LET h1 == hist[n]
              h2 == hist[m]
          IN (/\ n < m
              /\ h1.op = "CreateRelease"
              /\ h2.op = "CreateRelease"
              /\ h1.tag = h2.tag
              /\ h1.ok
              /\ CallsOf(h1, "CreateRelease") # {}
              /\ Listed(h2)) =>
                IF h2.existed
                THEN CallsOf(h2, "CreateRelease") = {}
                ELSE /\ ~h2.ok
                     /\ \E c \in CallsOf(h2, "CreateRelease") :
                           /\ h2.calls[c].args.tag = h1.tag
                           /\ h2.calls[c].fault # "none"
    /\ (hist # <<>> /\ hist[Len(hist)].op = "CreateRelease" /\ hist[Len(hist)].ok) =>
          \A c \in CallsOf(hist[Len(hist)], "EditRelease") :
              StoredNote(releases, hist[Len(hist)].calls[c].args.id)
                  = hist[Len(hist)].calls[c].args.note

\* Both runs listed before either created: two create calls for one tag.
C14_Witness ==
    /\ Len(hist) = 2
    /\ hist[1].tag = hist[2].tag
    /\ ~hist[1].existed
    /\ ~hist[2].existed
    /\ hist[1].ok
    /\ \E c \in CallsOf(hist[1], "CreateRelease") : hist[1].calls[c].fault = "none"
    /\ \E c \in CallsOf(hist[2], "CreateRelease") : hist[2].calls[c].fault = "conflict"

(***************************************************************************)
(* The memo and the fatal abort                                            *)
(***************************************************************************)
AllProcessed == \A k \in DOMAIN pipeline : Processed(k)

\* The run aborted at the failure trace[j]: it is the last thing the run
\* did, and no later stage was processed.
AbortedOn(j) ==
    /\ pc = "returned"
    /\ j = Len(trace)
    /\ idx = trace[j].stage
    /\ \A n \in DOMAIN pipeline : n > trace[j].stage => ~Processed(n)

(***************************************************************************)
(* C15 (as stated)  Error memo and early abort: a run whose memo is        *)
(* non-empty does not abort early; it processes every stage of the list    *)
(* and returns the combined failure after the last one.                    *)
(***************************************************************************)
C15_MemoNeverAborts ==
    (memo # <<>> /\ pc = "returned") =>
        /\ ReachedEnd
        /\ AllProcessed
        /\ ret = MemoError(memo)

(***************************************************************************)
(* C15 (amended)  The combined failure of the memo is returned only by a   *)
(* run that reached the end of the list with every stage processed, and    *)
(* not before; a run with a non-empty memo either ends so, or aborts at a  *)
(* later stage that failed fatally, the stages after it unprocessed, and   *)
(* returns that stage's fatal error.                                       *)
(***************************************************************************)
C15_MemoReportedAtEnd ==
    /\ "errors" \in DOMAIN ret =>
          /\ ReachedEnd
          /\ AllProcessed
          /\ memo # <<>>
          /\ ret.errors = memo
    /\ (memo # <<>> /\ pc # "returned") => ret = Nil
    /\ (memo # <<>> /\ pc = "returned") =>
          \/ /\ ReachedEnd
             /\ AllProcessed
             /\ ret = MemoError(memo)
          \/ \E j \in Failures :
                /\ AbortedOn(j)
                /\ ~ShouldContinue(pipeline[trace[j].stage], failFast)
                /\ \A m \in DOMAIN memo : memo[m].msg[1] # pipeline[trace[j].stage].name
                /\ "wraps" \in DOMAIN ret
                /\ ret.msg[1] = pipeline[trace[j].stage].name

\* The first stage failed and was memorized, the two after it were still
\* processed, and the combined failure came after the last.
C15_Witness ==
    /\ ReachedEnd
    /\ Len(pipeline) = 3
    /\ Len(memo) = 1
    /\ memo[1].msg[1] = "A"
    /\ \E j \in DOMAIN trace : trace[j].stage = 2 /\ trace[j].ev = "skip"
    /\ \E j \in DOMAIN trace : trace[j].stage = 3 /\ trace[j].ev = "end" /\ trace[j].err = Nil
    /\ ret = MemoError(memo)

(***************************************************************************)
(* C20  Memorized failures are dropped on a fatal abort: when the run      *)
(* aborts at a failure with failures already memorized, what Run returns   *)
(* is the fatal error of that stage alone, its name and its cause; it is   *)
(* no combined error, and no memorized failure is the returned error, is   *)
(* wrapped by it, or has its text in it.                                   *)
(***************************************************************************)
C20_MemoDroppedOnAbort ==
    \A j \in Failures :
        (memo # <<>> /\ AbortedOn(j)) =>
            LET name == pipeline[trace[j].stage].name
            IN /\ ret = FatalError(name, trace[j].err)
               /\ "errors" \notin DOMAIN ret
               /\ ret.msg = <<name, ": failed to publish artifacts: ">> \o trace[j].err.msg
               /\ ret.wraps = trace[j].err
               /\ \A m \in DOMAIN memo :
                     /\ memo[m] # ret
                     /\ memo[m] # ret.wraps
                     /\ \A i \in DOMAIN ret.msg : ret.msg[i] # memo[m].msg[1]

\* A and B failed and were memorized, then C failed fatally.
C20_Witness ==
    /\ Len(memo) = 2
    /\ pc = "returned"
    /\ ~ReachedEnd
    /\ \E j \in Failures : AbortedOn(j) /\ trace[j].stage = 3
    /\ ret.msg[1] = "C"

(***************************************************************************)
(* C18  Create-or-update decision by exact tag: an invocation whose        *)
(* listing was answered issues exactly one of create or edit; it issues    *)
(* the edit if and only if the repository held a release whose tag is      *)
(* string-equal to the current tag when it listed, whichever page of the   *)
(* listing that release is on, and the edit is of the first such release   *)
(* in listing order; otherwise it issues exactly one create.               *)
(***************************************************************************)
C18_ExactTagDecision ==
    \A n \in DOMAIN hist :
        LET h == hist[n]
        IN (h.op = "CreateRelease" /\ Listed(h)) =>
             /\ Cardinality(CallsOf(h, "CreateRelease")
                              \cup CallsOf(h, "EditRelease")) = 1
             /\ h.existed <=> CallsOf(h, "EditRelease") # {}
             /\ ~h.existed => Cardinality(CallsOf(h, "CreateRelease")) = 1
             /\ \A c \in CallsOf(h, "EditRelease") : h.calls[c].args.tag = h.tag

(***************************************************************************)
(* One client, its operations called one after another in any order        *)
(***************************************************************************)
InitClient ==
    /\ pipeline = <<>>
    /\ failFast = FALSE
    /\ idx = 1
    /\ pc = "returned"
    /\ memo = EmptyMemo
    /\ ret = Nil
    /\ trace = <<>>
    /\ releases = <<>>
    /\ nextID = 1
    /\ files = NoFiles
    /\ assets = {}
    /\ milestones \in [Titles -> {"open", "absent"}]
    /\ cpc = [r \in Runs |-> "idle"]
    /\ frame = [r \in Runs |-> NoFrame]
    /\ hist = <<>>

NextClient ==
    \/ CreateReleaseList(1)
    \/ CreateReleaseMutate(1)
    \/ CreateFile
    \/ Upload
    \/ CloseMilestone
    \/ Changelog

SpecClient == InitClient /\ [][NextClient]_vars

\* The provider calls that change the remote state.
MutatingCalls ==
    {"CreateRelease", "EditRelease", "CreateFile", "UpdateFile",
     "EditMilestoneByName", "CreateReleaseAttachment"}

\* The provider calls that read the remote state a mutating call changes.
ReadsFor(call) ==
    CASE call \in {"CreateRelease", "EditRelease"} -> {"ListReleases"}
      [] call \in {"CreateFile", "UpdateFile"} -> {"GetContents"}
      [] call = "EditMilestoneByName" -> {"GetMilestoneByName", "ListMilestones"}
      [] call = "CreateReleaseAttachment" ->
             {"ListReleases", "GetRelease", "ListReleaseAttachments"}

Failed(h, c) == h.calls[c].fault # "none"

\* No mutating call follows call c in the invocation.
NoMutationAfter(h, c) ==
    \A d \in DOMAIN h.calls : d > c => h.calls[d].call \notin MutatingCalls

\* The two not-found accommodations: the file lookup answering not-found is
\* followed by the create; the milestone edit answering not-found is
\* returned as ErrNoMilestoneFound.
FileAbsent(h, c) == h.calls[c].call = "GetContents" /\ h.calls[c].fault = "notfound"

MilestoneAbsent(h, c) ==
    h.calls[c].call = "EditMilestoneByName" /\ h.calls[c].fault = "notfound"

NotFoundAccommodation(h, c) ==
    /\ FileAbsent(h, c) =>
          /\ c < Len(h.calls)
          /\ h.calls[c + 1].call = "CreateFile"
          /\ h.ok <=> ~Failed(h, c + 1)
    /\ MilestoneAbsent(h, c) =>
          /\ ~h.ok
          /\ h.err = ErrNoMilestoneFound(h.title)
          /\ c = Len(h.calls)

\* The failure of call c is returned to the caller: the invocation fails
\* and issues no mutating call after it.
Propagated(h, c) == ~h.ok /\ NoMutationAfter(h, c)

BranchLookupFailed(h, c) == h.calls[c].call = "GetRepo" /\ Failed(h, c)

BranchLookupSwallowed(h, c) ==
    /\ h.op = "CreateFile"
    /\ h.warned
    /\ h.branch = ""
    /\ c < Len(h.calls)
    /\ h.calls[c + 1].call = "GetContents"
    /\ h.calls[c + 1].args.branch = ""

ReadBefore(h, c) ==
    \E d \in DOMAIN h.calls : d < c /\ h.calls[d].call \in ReadsFor(h.calls[c].call)

Mutations(h) == { c \in DOMAIN h.calls : h.calls[c].call \in MutatingCalls }

(***************************************************************************)
(* C17 (as stated)  Re-fetch before every mutation: every mutating         *)
(* provider call of an invocation (create or edit release, create or       *)
(* update file, edit milestone, create release attachment) is preceded in  *)
(* that invocation by a read of the remote state it changes; an idle       *)
(* client holds nothing of the remote state.                               *)
(***************************************************************************)
C17_RefetchBeforeEveryMutation ==
    /\ \A n \in DOMAIN hist : \A c \in Mutations(hist[n]) : ReadBefore(hist[n], c)
    /\ \A r \in Runs : cpc[r] = "idle" => frame[r] = NoFrame

(***************************************************************************)
(* C17 (amended)  Re-fetch before the release and file mutations: every    *)
(* create or edit of a release is preceded in its invocation by an         *)
(* answered listing of the releases, every create or update of a file by a *)
(* lookup of the file that was answered (found or not found), the update   *)
(* carrying the revision marker that lookup read; the milestone edit of    *)
(* CloseMilestone and the attachment creation of Upload are the first and  *)
(* only provider call of their invocation, with no read before them.  An   *)
(* idle client holds nothing of the remote state.                          *)
(***************************************************************************)
C17_RefetchBeforeReleaseAndFile ==
    /\ \A n \in DOMAIN hist :
          LET h == hist[n]
          IN \A c \in Mutations(h) :
                 IF h.calls[c].call \in {"EditMilestoneByName", "CreateReleaseAttachment"}
                 THEN c = 1 /\ Len(h.calls) = 1
                 ELSE /\ ReadBefore(h, c)
                      /\ c = Len(h.calls)
                      /\ h.calls[c - 1].call \in ReadsFor(h.calls[c].call)
                      /\ h.calls[c - 1].fault \in {"none", "notfound"}
                      /\ h.calls[c].call = "UpdateFile" =>
                            /\ h.calls[c - 1].fault = "none"
                            /\ h.calls[c].args.sha = h.stored
                            /\ h.calls[c].args.sha # NoSha
    /\ \A r \in Runs : cpc[r] = "idle" => frame[r] = NoFrame

\* A file created after a lookup answering not-found, then updated after a
\* second lookup, with the revision marker that second lookup read.
C17_Witness ==
    /\ Len(hist) = 2
    /\ hist[1].op = "CreateFile"
    /\ hist[1].ok
    /\ hist[2].op = "CreateFile"
    /\ hist[2].ok
    /\ \E c \in CallsOf(hist[2], "UpdateFile") :
          /\ hist[2].calls[c].args.sha = ShaOf(hist[1].content)
          /\ hist[2].calls[c - 1].call = "GetContents"

(***************************************************************************)
(* publish.New: the default pipeline                                       *)
(***************************************************************************)
\* The publishers of New(), in the order of its literal.
NewNamesReleaseLast ==
    <<"blob", "upload", "artifactory", "docker", "docker.manifest", "ko",
      "sign.docker", "snapcraft",
      "nix", "winget", "brew", "cask", "aur", "aursources", "krew", "scoop",
      "chocolatey", "release", "milestone", "custompublishers">>

NewNames ==
    <<"blob", "upload", "artifactory", "docker", "docker.manifest", "ko",
      "sign.docker", "snapcraft",
      "release",
      "nix", "winget", "brew", "cask", "aur", "aursources", "krew", "scoop",
      "chocolatey", "milestone", "custompublishers">>

\* The stages that publish to a package-manager repository.
PackageManagers ==
    {"nix", "winget", "brew", "cask", "aur", "aursources", "krew", "scoop",
     "chocolatey"}

\* New(), the release stage standing to Continuable as releaseCont says and
\* the other stages as otherCont says.
New(releaseCont, otherCont) ==
    [i \in DOMAIN NewNames |->
        [name |-> NewNames[i],
         cont |-> IF NewNames[i] = "release" THEN releaseCont ELSE otherCont]]

InitNew ==
    /\ pipeline \in { New(rc, oc) : rc \in ContKinds, oc \in ContKinds }
    /\ failFast \in BOOLEAN
    /\ idx = 1
    /\ pc = "loop"
    /\ memo = EmptyMemo
    /\ ret = Nil
    /\ trace = <<>>
    /\ releases = <<>>
    /\ nextID = 1
    /\ files = NoFiles
    /\ assets = {}
    /\ milestones = NoMilestones
    /\ cpc = [r \in Runs |-> "idle"]
    /\ frame = [r \in Runs |-> NoFrame]
    /\ hist = <<>>

SpecNew == InitNew /\ [][NextRun]_vars

StagesNamed(name) == { k \in DOMAIN pipeline : pipeline[k].name = name }

PackageManagerStages == { k \in DOMAIN pipeline : pipeline[k].name \in PackageManagers }

\* Stage k was processed before position j of the trace without a fatal
\* error: skipped, or run to a return that did not abort the run.
ProcessedBefore(k, j) ==
    \E i \in DOMAIN trace :
        /\ i < j
        /\ trace[i].stage = k
        /\ trace[i].ev \in {"skip", "end"}
        /\ IsFailure(trace[i]) => ShouldContinue(pipeline[k], failFast)

(***************************************************************************)
(* C19  Release before package managers: in the pipeline New() builds,     *)
(* the one release stage stands before every package-manager stage; in     *)
(* every run, when a package-manager stage starts, the release stage has   *)
(* been skipped or has returned without a fatal error; and a run that      *)
(* aborted at the release stage started no package-manager stage.          *)
(***************************************************************************)
C19_ReleaseBeforePackageManagers ==
    /\ Cardinality(StagesNamed("release")) = 1
    /\ { pipeline[k].name : k \in PackageManagerStages } = PackageManagers
    /\ \A rel \in StagesNamed("release") :
          /\ \A k \in PackageManagerStages : rel < k
          /\ \A j \in DOMAIN trace :
                (trace[j].ev = "start" /\ trace[j].stage \in PackageManagerStages) =>
                    ProcessedBefore(rel, j)
          /\ (pc = "returned" /\ "wraps" \in DOMAIN ret /\ ret.msg[1] = "release") =>
                /\ idx = rel
                /\ \A k \in PackageManagerStages : ~Invoked(k)

\* The release stage failed, the failure was memorized, and the last
\* package-manager stage started after it.
C19_Witness ==
    /\ \E j \in Failures : pipeline[trace[j].stage].name = "release"
    /\ Len(memo) = 1
    /\ memo[1].msg[1] = "release"
    /\ \E k \in PackageManagerStages :
          pipeline[k].name = "chocolatey" /\ Invoked(k)

====
